---- MODULE Spec2Model ----
(***************************************************************************)
(* The upload / preview / generation workflow of src/static/app.js (the    *)
(* current version of the script, lines 350-838).                          *)
(*                                                                         *)
(* The page is single-threaded: every event handler and every callback     *)
(* (FileReader onload, the continuation of handleGenerate after its        *)
(* awaits) runs to completion, so each is one action.  A handler is a      *)
(* sequence of calls on the page's state; each JavaScript function is an   *)
(* operator from a state record to a state record and a handler is their   *)
(* composition in the order of the source.                                 *)
(***************************************************************************)
EXTENDS Integers, Sequences, FiniteSets, TLC

VARIABLES
    uploadedFiles,        \* let uploadedFiles = []            (array of File)
    isGenerating,         \* let isGenerating = false
    promptValue,          \* promptInput.value                 (sequence of characters)
    charCount,            \* charCount.textContent
    aspectRatio,          \* aspectRatio.value
    generateBtnDisabled,  \* generateBtn.disabled
    btnTextHidden,        \* .btn-text   has class hidden
    btnLoaderHidden,      \* .btn-loader has class hidden
    resultSectionHidden,  \* resultSection has class hidden
    resultImageSrc,       \* resultImage.src
    errorMessageHidden,   \* errorMessage has class hidden
    errorText,            \* errorText.textContent
    previewGrid,          \* children of previewGrid, in document order
    readers,              \* FileReaders whose onload has not run yet, in creation order
    requests,             \* POSTs to /api/generate not yet settled, in issue order
    navigator,            \* which of navigator.share, .canShare, .clipboard the browser has
    healthCheck,          \* "pending" until the GET of /api/health has settled
    shares,               \* calls of handleShare suspended at an await
    hideTimers,           \* setTimeout(hideError, 3000) not yet fired
    lastOp                \* the handler or callback that ran last

vars == <<uploadedFiles, isGenerating, promptValue, charCount, aspectRatio,
          generateBtnDisabled, btnTextHidden, btnLoaderHidden,
          resultSectionHidden, resultImageSrc, errorMessageHidden, errorText,
          previewGrid, readers, requests, navigator, healthCheck, shares,
          hideTimers, lastOp>>

-----------------------------------------------------------------------------
(* Program constants and the literals of the source.                       *)

MAX_FILES == 14

MsgMaxFiles(remainingSlots) ==
    "Maximum " \o ToString(MAX_FILES) \o " images allowed. Only "
        \o ToString(remainingSlots) \o " more can be added."
MsgEmptyPrompt == "Please enter a prompt to generate an image."
MsgFailedToGenerate == "Failed to generate image"
MsgNoImage == "No image was generated"
MsgGenericError == "An error occurred while generating the image."
MsgApiKeyNotConfigured ==
    "API key not configured. Please set GOOGLE_API_KEY environment variable."
MsgUnableToConnect == "Unable to connect to the server. Please try again later."
MsgShareNotSupported ==
    "Share not supported on this device. Please use Download instead."
MsgUnableToShare == "Unable to share. Please use Download instead."

(* Messages the runtime, not the script, chooses: the TypeError of a       *)
(* rejected fetch and the SyntaxError of response.json() on a body that is *)
(* not JSON.  Both are non-empty in every engine and neither is a literal  *)
(* of the script.                                                          *)
MsgFetchRejected == "Failed to fetch"
MsgJsonSyntaxError == "Unexpected token < in JSON at position 0"

(* JavaScript undefined, for a property the response body does not have.   *)
Undefined == "<undefined>"

(* Truthiness of a string-or-undefined value, as || and && test it.        *)
Truthy(v) == v # Undefined /\ v # ""

(* a || b *)
OrElse(a, b) == IF Truthy(a) THEN a ELSE b

-----------------------------------------------------------------------------
(* Bounds of the model.                                                    *)

MaxBatch == 1        \* files per selection or drop in Spec
MaxHeld == 1         \* attachments held in Spec
MaxPreview == 1      \* FileReaders pending plus preview items shown in Spec
MaxRequests == 2     \* requests outstanding at once
MaxOver == 1         \* files offered to one add beyond MAX_FILES, in SpecCap
MaxFill == 2         \* room left by the big selections of SpecAppend
MaxReqHeld == 2      \* attachments held in SpecReq
MaxShares == 1       \* calls of handleShare suspended at once
MaxTimers == 1       \* hideError timers pending at once
MaxGridBatch == 2    \* files per selection in SpecGrid
MaxGridHeld == 3     \* attachments held in SpecGrid
MaxGridPending == 3  \* FileReaders pending at once in SpecGrid

-----------------------------------------------------------------------------
(* Inputs.                                                                 *)

Files == {"a.png", "b.txt"}

(* two image files to tell apart, for the order of the collection *)
GridFiles == {"a.png", "c.png"}

(* file.type.startsWith('image/') *)
IsImage(file) == file \in {"a.png", "c.png"}

Space == " "
PromptInputs == {<<>>, <<Space>>, <<Space, "a", Space>>}
SuggestedPrompts == {<<"a">>}

AspectRatios == {"1:1", "16:9", "9:16", "4:3", "3:4"}

ImageData == "data:image/png;base64,AAAA"
DetailText == "quota exceeded"

(* What a request settles with: fetch rejects; or it resolves with a       *)
(* status (response.ok) and a body that is not JSON or is a JSON object    *)
(* with some of success, image, detail.  The error bodies vary detail, the *)
(* success-status bodies vary success and image.                           *)
Outcomes ==
    {[kind |-> "rejected"]}
    \cup [kind : {"not_json"}, ok : BOOLEAN]
    \cup [kind : {"object"}, ok : {FALSE}, success : {FALSE},
          image : {Undefined}, detail : {Undefined, "", DetailText}]
    \cup [kind : {"object"}, ok : {TRUE}, success : BOOLEAN,
          image : {Undefined, "", ImageData}, detail : {Undefined}]

(* What the GET of /api/health settles with: fetch rejects; or the body is *)
(* not JSON; or it is a JSON object with a boolean api_configured, or one  *)
(* without that property.  The script does not look at the status of this  *)
(* response.                                                               *)
HealthOutcomes ==
    {[kind |-> "rejected"], [kind |-> "not_json"], [kind |-> "object_without"]}
    \cup [kind : {"object"}, api_configured : BOOLEAN]

(* The browsers: with or without the Web Share API (navigator.share and    *)
(* navigator.canShare come together), with or without navigator.clipboard. *)
Navigators ==
    {[share |-> b, canShare |-> b, clipboard |-> c] : b \in BOOLEAN, c \in BOOLEAN}

(* How a handleShare that went on to the Web Share API ends: the fetch of  *)
(* the image fails; canShare refuses the file; navigator.share resolves;   *)
(* or it rejects, with AbortError when the user cancels and with another   *)
(* error otherwise.                                                        *)
ShareOutcomes ==
    {[kind |-> "fetch_failed"], [kind |-> "cannot_share_file"], [kind |-> "shared"]}
    \cup [kind : {"share_rejected"}, name : {"AbortError", "NotAllowedError"}]

SeqsUpTo(S, n) == UNION {[1..k -> S] : k \in 0..n}

Min(a, b) == IF a < b THEN a ELSE b
Max(a, b) == IF a > b THEN a ELSE b

-----------------------------------------------------------------------------
(* JavaScript library functions the script uses.                           *)

(* String.prototype.trim, on a sequence of characters *)
RECURSIVE TrimStart(_)
TrimStart(str) ==
    IF str # <<>> /\ Head(str) = Space THEN TrimStart(Tail(str)) ELSE str

RECURSIVE TrimEnd(_)
TrimEnd(str) ==
    IF str # <<>> /\ str[Len(str)] = Space
    THEN TrimEnd(SubSeq(str, 1, Len(str) - 1))
    ELSE str

Trim(str) == TrimEnd(TrimStart(str))

(* Array.prototype.slice(0, end): a negative end counts from the back *)
Slice0(arr, end) ==
    LET stop == IF end < 0 THEN Max(Len(arr) + end, 0) ELSE Min(end, Len(arr))
    IN  SubSeq(arr, 1, stop)

(* Array.prototype.splice(index, 1) with index >= 0: deletes the element   *)
(* at the 0-based index, or nothing when index >= length                   *)
Splice1(arr, index) ==
    IF index < Len(arr)
    THEN SubSeq(arr, 1, index) \o SubSeq(arr, index + 2, Len(arr))
    ELSE arr

(* arr without its i-th (1-based) element *)
Without(arr, i) == SubSeq(arr, 1, i - 1) \o SubSeq(arr, i + 1, Len(arr))

-----------------------------------------------------------------------------
(* The page's state as one record, and its commit to the variables.        *)

Page ==
    [uploadedFiles |-> uploadedFiles,
     isGenerating |-> isGenerating,
     promptValue |-> promptValue,
     charCount |-> charCount,
     aspectRatio |-> aspectRatio,
     generateBtnDisabled |-> generateBtnDisabled,
     btnTextHidden |-> btnTextHidden,
     btnLoaderHidden |-> btnLoaderHidden,
     resultSectionHidden |-> resultSectionHidden,
     resultImageSrc |-> resultImageSrc,
     errorMessageHidden |-> errorMessageHidden,
     errorText |-> errorText,
     previewGrid |-> previewGrid,
     readers |-> readers,
     requests |-> requests,
     navigator |-> navigator,
     healthCheck |-> healthCheck,
     shares |-> shares,
     hideTimers |-> hideTimers]

Commit(s, op) ==
    /\ uploadedFiles' = s.uploadedFiles
    /\ isGenerating' = s.isGenerating
    /\ promptValue' = s.promptValue
    /\ charCount' = s.charCount
    /\ aspectRatio' = s.aspectRatio
    /\ generateBtnDisabled' = s.generateBtnDisabled
    /\ btnTextHidden' = s.btnTextHidden
    /\ btnLoaderHidden' = s.btnLoaderHidden
    /\ resultSectionHidden' = s.resultSectionHidden
    /\ resultImageSrc' = s.resultImageSrc
    /\ errorMessageHidden' = s.errorMessageHidden
    /\ errorText' = s.errorText
    /\ previewGrid' = s.previewGrid
    /\ readers' = s.readers
    /\ requests' = s.requests
    /\ navigator' = s.navigator
    /\ healthCheck' = s.healthCheck
    /\ shares' = s.shares
    /\ hideTimers' = s.hideTimers
    /\ lastOp' = op

-----------------------------------------------------------------------------
(* The functions of the script.                                            *)

(* showError: the scrollIntoView timer changes no state of the model *)
showError(s, message) ==
    [s EXCEPT !.errorText = message, !.errorMessageHidden = FALSE]

hideError(s) ==
    [s EXCEPT !.errorMessageHidden = TRUE, !.errorText = ""]

updateGenerateButton(s) ==
    LET hasPrompt == Len(Trim(s.promptValue)) > 0
    IN  [s EXCEPT !.generateBtnDisabled = ~hasPrompt \/ s.isGenerating]

setLoading(s, loading) ==
    IF loading
    THEN [s EXCEPT !.generateBtnDisabled = TRUE,
                   !.btnTextHidden = TRUE,
                   !.btnLoaderHidden = FALSE]
    ELSE updateGenerateButton(
             [s EXCEPT !.btnTextHidden = FALSE, !.btnLoaderHidden = TRUE])

(* createPreviewItem: starts a FileReader; the item is built and appended  *)
(* when its onload runs (readerOnload), with the index captured here       *)
createPreviewItem(s, file, index) ==
    [s EXCEPT !.readers = Append(@, [file |-> file, index |-> index])]

(* reader.onload of the i-th pending reader: appends the preview item,     *)
(* whose remove button calls removeFile with the captured index            *)
readerOnload(s, i) ==
    [s EXCEPT !.previewGrid = Append(@, s.readers[i]),
              !.readers = Without(@, i)]

(* filesToAdd.forEach(file => { push; createPreviewItem(file, length-1) }) *)
RECURSIVE pushEach(_, _)
pushEach(s, filesToAdd) ==
    IF filesToAdd = <<>>
    THEN s
    ELSE LET file == Head(filesToAdd)
             pushed == [s EXCEPT !.uploadedFiles = Append(@, file)]
         IN  pushEach(createPreviewItem(pushed, file, Len(pushed.uploadedFiles) - 1),
                      Tail(filesToAdd))

(* addFiles without the slice to the remaining slots *)
addFiles_NoSlice(s, files) ==
    LET remainingSlots == MAX_FILES - Len(s.uploadedFiles)
        s1 == IF Len(files) > remainingSlots
              THEN showError(s, MsgMaxFiles(remainingSlots))
              ELSE s
        s2 == pushEach(s1, files)
    IN  hideError(updateGenerateButton(s2))

(* addFiles keeping the last files that fit instead of the first *)
addFiles_TakeLast(s, files) ==
    LET remainingSlots == MAX_FILES - Len(s.uploadedFiles)
        filesToAdd == SubSeq(files, Max(Len(files) - remainingSlots, 0) + 1, Len(files))
        s1 == IF Len(files) > remainingSlots
              THEN showError(s, MsgMaxFiles(remainingSlots))
              ELSE s
        s2 == pushEach(s1, filesToAdd)
    IN  hideError(updateGenerateButton(s2))

addFiles(s, files) ==
    LET remainingSlots == MAX_FILES - Len(s.uploadedFiles)
        filesToAdd == Slice0(files, remainingSlots)
        s1 == IF Len(files) > remainingSlots
              THEN showError(s, MsgMaxFiles(remainingSlots))
              ELSE s
        s2 == pushEach(s1, filesToAdd)
    IN  hideError(updateGenerateButton(s2))

(* uploadedFiles.forEach((file, index) => createPreviewItem(file, index)) *)
RECURSIVE previewEach(_, _)
previewEach(s, index) ==
    IF index >= Len(s.uploadedFiles)
    THEN s
    ELSE previewEach(createPreviewItem(s, s.uploadedFiles[index + 1], index), index + 1)

rebuildPreviewGrid(s) ==
    previewEach([s EXCEPT !.previewGrid = <<>>], 0)

(* removeFile with splice(index): everything from index on is deleted *)
removeFile_SpliceToEnd(s, index) ==
    LET s1 == [s EXCEPT !.uploadedFiles = SubSeq(@, 1, Min(index, Len(@)))]
    IN  updateGenerateButton(rebuildPreviewGrid(s1))

removeFile(s, index) ==
    LET s1 == [s EXCEPT !.uploadedFiles = Splice1(@, index)]
    IN  updateGenerateButton(rebuildPreviewGrid(s1))

handlePromptInput(s) ==
    hideError(updateGenerateButton([s EXCEPT !.charCount = Len(s.promptValue)]))

(* handleGenerate without the check of the prompt *)
handleGenerate_NoValidation(s) ==
    LET prompt == Trim(s.promptValue)
    IN  IF s.isGenerating
        THEN s
        ELSE LET s1 == [s EXCEPT !.isGenerating = TRUE]
                 s2 == hideError(setLoading(s1, TRUE))
                 s3 == [s2 EXCEPT !.resultSectionHidden = TRUE]
                 formData == [prompt |-> prompt,
                              aspect_ratio |-> s.aspectRatio,
                              images |-> s.uploadedFiles]
             IN  [s3 EXCEPT !.requests = Append(@, formData)]

(* handleGenerate leaving a result of an earlier generation shown *)
handleGenerate_KeepResult(s) ==
    LET prompt == Trim(s.promptValue)
    IN  IF prompt = <<>>
        THEN showError(s, MsgEmptyPrompt)
        ELSE IF s.isGenerating
        THEN s
        ELSE LET s1 == [s EXCEPT !.isGenerating = TRUE]
                 s2 == hideError(setLoading(s1, TRUE))
                 formData == [prompt |-> prompt,
                              aspect_ratio |-> s.aspectRatio,
                              images |-> s.uploadedFiles]
             IN  [s2 EXCEPT !.requests = Append(@, formData)]

(* handleGenerate sending the prompt as typed, not trimmed *)
handleGenerate_RawPrompt(s) ==
    LET prompt == Trim(s.promptValue)
    IN  IF prompt = <<>>
        THEN showError(s, MsgEmptyPrompt)
        ELSE IF s.isGenerating
        THEN s
        ELSE LET s1 == [s EXCEPT !.isGenerating = TRUE]
                 s2 == hideError(setLoading(s1, TRUE))
                 s3 == [s2 EXCEPT !.resultSectionHidden = TRUE]
                 formData == [prompt |-> s.promptValue,
                              aspect_ratio |-> s.aspectRatio,
                              images |-> s.uploadedFiles]
             IN  [s3 EXCEPT !.requests = Append(@, formData)]

(* handleGenerate up to its first await: the checks, the loading state and *)
(* the request handed to fetch.  The FormData is built from the page as it *)
(* is now; nothing later changes it.                                       *)
handleGenerate(s) ==
    LET prompt == Trim(s.promptValue)
    IN  IF prompt = <<>>
        THEN showError(s, MsgEmptyPrompt)
        ELSE IF s.isGenerating
        THEN s
        ELSE LET s1 == [s EXCEPT !.isGenerating = TRUE]
                 s2 == hideError(setLoading(s1, TRUE))
                 s3 == [s2 EXCEPT !.resultSectionHidden = TRUE]
                 formData == [prompt |-> prompt,
                              aspect_ratio |-> s.aspectRatio,
                              images |-> s.uploadedFiles]
             IN  [s3 EXCEPT !.requests = Append(@, formData)]

(* The message of the error the try block throws for an outcome, or        *)
(* Undefined when it throws nothing.                                       *)
thrownMessage(outcome) ==
    CASE outcome.kind = "rejected" -> MsgFetchRejected
      [] outcome.kind = "not_json" -> MsgJsonSyntaxError
      [] outcome.kind = "object" ->
            IF ~outcome.ok
            THEN OrElse(outcome.detail, MsgFailedToGenerate)
            ELSE IF outcome.success /\ Truthy(outcome.image)
            THEN Undefined
            ELSE MsgNoImage

isSuccess(outcome) ==
    /\ outcome.kind = "object"
    /\ outcome.ok
    /\ outcome.success
    /\ Truthy(outcome.image)

(* generateSettled with the cleanup at the end of the try block instead   *)
(* of in a finally: a thrown error skips it                                *)
generateSettled_NoFinally(s, outcome) ==
    IF isSuccess(outcome)
    THEN setLoading([s EXCEPT !.resultImageSrc = outcome.image,
                              !.resultSectionHidden = FALSE,
                              !.isGenerating = FALSE], FALSE)
    ELSE showError(s, OrElse(thrownMessage(outcome), MsgGenericError))

(* handleGenerate from its awaits on: the rest of the try block, the       *)
(* catch and the finally.  Nothing of the page is read or written between  *)
(* the two awaits (fetch, response.json), so they are one step.            *)
generateSettled(s, outcome) ==
    LET tried == IF isSuccess(outcome)
                 THEN [s EXCEPT !.resultImageSrc = outcome.image,
                                !.resultSectionHidden = FALSE]
                 ELSE showError(s, OrElse(thrownMessage(outcome), MsgGenericError))
    IN  setLoading([tried EXCEPT !.isGenerating = FALSE], FALSE)

(* handleNewGeneration without the closing updateGenerateButton *)
handleNewGeneration_NoButtonUpdate(s) ==
    LET s1 == [s EXCEPT !.uploadedFiles = <<>>,
                        !.previewGrid = <<>>,
                        !.promptValue = <<>>,
                        !.charCount = 0,
                        !.resultSectionHidden = TRUE,
                        !.resultImageSrc = ""]
        s2 == hideError(s1)
    IN  [s2 EXCEPT !.isGenerating = FALSE]

handleNewGeneration(s) ==
    LET s1 == [s EXCEPT !.uploadedFiles = <<>>,
                        !.previewGrid = <<>>,
                        !.promptValue = <<>>,
                        !.charCount = 0,
                        !.resultSectionHidden = TRUE,
                        !.resultImageSrc = ""]
        s2 == hideError(s1)
    IN  updateGenerateButton([s2 EXCEPT !.isGenerating = FALSE])

(* checkApiHealth without its catch: a failed check goes unnoticed *)
checkApiHealthSettled_NoCatch(s, outcome) ==
    LET done == [s EXCEPT !.healthCheck = "done"]
    IN  CASE outcome.kind = "object" ->
                IF ~outcome.api_configured
                THEN showError(done, MsgApiKeyNotConfigured)
                ELSE done
          [] outcome.kind = "object_without" ->
                showError(done, MsgApiKeyNotConfigured)
          [] OTHER -> done

(* checkApiHealth from its awaits on *)
checkApiHealthSettled(s, outcome) ==
    LET done == [s EXCEPT !.healthCheck = "done"]
    IN  CASE outcome.kind = "object" ->
                IF ~outcome.api_configured
                THEN showError(done, MsgApiKeyNotConfigured)
                ELSE done
          [] outcome.kind = "object_without" ->
                showError(done, MsgApiKeyNotConfigured)
          [] OTHER -> showError(done, MsgUnableToConnect)

(* setTimeout(hideError, 3000) *)
setTimeoutHideError(s) == [s EXCEPT !.hideTimers = @ + 1]

(* the fallback of handleShare, after the if of the Web Share API *)
shareFallback(s) ==
    IF s.navigator.clipboard
    THEN setTimeoutHideError(showError(s, MsgShareNotSupported))
    ELSE s

(* handleShare up to its first await, or to its end when it has none *)
handleShare(s) ==
    IF ~Truthy(s.resultImageSrc)
    THEN s
    ELSE IF s.navigator.share /\ s.navigator.canShare
    THEN [s EXCEPT !.shares = @ + 1]
    ELSE shareFallback(s)

(* handleShare from its awaits on (fetch, blob, navigator.share) *)
shareSettled(s, outcome) ==
    LET s1 == [s EXCEPT !.shares = @ - 1]
        caught == setTimeoutHideError(showError(s1, MsgUnableToShare))
    IN  CASE outcome.kind = "fetch_failed" -> caught
          [] outcome.kind = "cannot_share_file" -> shareFallback(s1)
          [] outcome.kind = "shared" -> s1
          [] outcome.kind = "share_rejected" ->
                IF outcome.name # "AbortError" THEN caught ELSE s1

(* a timer of setTimeout(hideError, 3000) fires *)
hideTimerFired(s) == hideError([s EXCEPT !.hideTimers = @ - 1])

-----------------------------------------------------------------------------
(* lastOp names the handler or callback that ran last, with the number of  *)
(* files an add was given and the index a remove was given.                *)
Op(name) == [op |-> name, n |-> 0]

(* The state once DOMContentLoaded has run, in a browser nav: the module    *)
(* state of the script and the page as its markup gives it: nothing        *)
(* attached, no prompt, result and error hidden, the button text shown and *)
(* the button disabled (the values handleNewGeneration restores), and the  *)
(* GET of checkApiHealth on its way.                                       *)
InitIn(nav) ==
    /\ uploadedFiles = <<>>
    /\ isGenerating = FALSE
    /\ promptValue = <<>>
    /\ charCount = 0
    /\ aspectRatio = "1:1"
    /\ generateBtnDisabled = TRUE
    /\ btnTextHidden = FALSE
    /\ btnLoaderHidden = TRUE
    /\ resultSectionHidden = TRUE
    /\ resultImageSrc = ""
    /\ errorMessageHidden = TRUE
    /\ errorText = ""
    /\ previewGrid = <<>>
    /\ readers = <<>>
    /\ requests = <<>>
    /\ navigator = nav
    /\ healthCheck = "pending"
    /\ shares = 0
    /\ hideTimers = 0
    /\ lastOp = Op("load")

(* Init: a browser with the Web Share API and the clipboard *)
Init == InitIn([share |-> TRUE, canShare |-> TRUE, clipboard |-> TRUE])

-----------------------------------------------------------------------------
(* The event handlers and callbacks.                                       *)

(* change on the file input: every selected file *)
HandleFileSelect(files) ==
    Commit(addFiles(Page, files), [op |-> "fileSelect", n |-> Len(files)])

(* drop on the upload area: the image-typed files *)
HandleDrop(files) ==
    Commit(addFiles(Page, SelectSeq(files, IsImage)),
           [op |-> "drop", n |-> Len(files)])

(* click on the remove button of the i-th item of the grid *)
RemoveClick(i) ==
    /\ i \in 1..Len(previewGrid)
    /\ Commit(removeFile(Page, previewGrid[i].index),
              [op |-> "removeFile", n |-> previewGrid[i].index])

(* load of the i-th pending FileReader *)
ReaderOnload(i) ==
    /\ i \in 1..Len(readers)
    /\ Commit(readerOnload(Page, i), Op("onload"))

(* input on the prompt field: the field holds value, then the handler *)
PromptInput(value) ==
    Commit(handlePromptInput([Page EXCEPT !.promptValue = value]),
           Op("promptInput"))

(* click on a suggested prompt *)
SuggestedPromptClick(prompt) ==
    Commit(handlePromptInput([Page EXCEPT !.promptValue = prompt]),
           Op("suggestedPrompt"))

(* the select changes; the script has no handler for it *)
AspectRatioChange(value) ==
    /\ value # aspectRatio
    /\ Commit([Page EXCEPT !.aspectRatio = value],
              Op("aspectRatio"))

(* handleGenerate is called.  The function makes its own checks of the     *)
(* prompt and of isGenerating, so it is modelled as callable in every      *)
(* state, not only when the button that is wired to it is enabled.         *)
GenerateClick ==
    Commit(handleGenerate(Page),
           Op("generate"))

(* the i-th outstanding request settles with outcome *)
FetchSettled(i, outcome) ==
    /\ i \in 1..Len(requests)
    /\ Commit(generateSettled([Page EXCEPT !.requests = Without(@, i)], outcome),
              Op("settled"))

(* click on the new-generation button *)
NewGenerationClick ==
    Commit(handleNewGeneration(Page), Op("newGeneration"))

(* the GET of /api/health settles with outcome *)
HealthSettled(outcome) ==
    /\ healthCheck = "pending"
    /\ Commit(checkApiHealthSettled(Page, outcome), Op("health"))

(* click on the share button *)
ShareClick ==
    Commit(handleShare(Page), Op("share"))

(* a suspended handleShare goes on to its end with outcome *)
ShareSettled(outcome) ==
    /\ shares > 0
    /\ Commit(shareSettled(Page, outcome), Op("shareSettled"))

(* a hideError timer fires *)
HideTimerFires ==
    /\ hideTimers > 0
    /\ Commit(hideTimerFired(Page), Op("hideTimer"))

-----------------------------------------------------------------------------
(* Spec: the whole workflow, with few and small attachments.               *)

SelectFiles ==
    \E files \in SeqsUpTo({"a.png"}, MaxBatch) :
        /\ Len(uploadedFiles) + Len(files) <= MaxHeld
        /\ Len(readers) + Len(previewGrid) + Len(files) <= MaxPreview
        /\ HandleFileSelect(files)

DropFiles ==
    \E files \in SeqsUpTo(Files, MaxBatch) :
        /\ Len(uploadedFiles) + Len(files) <= MaxHeld
        /\ Len(readers) + Len(previewGrid) + Len(files) <= MaxPreview
        /\ HandleDrop(files)

Remove ==
    \E i \in 1..Len(previewGrid) :
        /\ Len(readers) + Len(uploadedFiles) <= MaxPreview + 1
        /\ RemoveClick(i)

Onload == \E i \in 1..Len(readers) : ReaderOnload(i)

TypePrompt == \E value \in PromptInputs : PromptInput(value)

PickSuggested == \E prompt \in SuggestedPrompts : SuggestedPromptClick(prompt)

Generate ==
    /\ Len(requests) < MaxRequests
    /\ GenerateClick

Settle == \E i \in 1..Len(requests) : \E outcome \in Outcomes : FetchSettled(i, outcome)

Next ==
    \/ SelectFiles
    \/ DropFiles
    \/ Remove
    \/ Onload
    \/ TypePrompt
    \/ PickSuggested
    \/ Generate
    \/ Settle
    \/ NewGenerationClick

Spec == Init /\ [][Next]_vars

-----------------------------------------------------------------------------
(* SpecCap: the attachment collection up to and beyond its capacity.  One  *)
(* image file and selections of 0 .. MAX_FILES + MaxOver copies of it.     *)
(* The FileReaders complete in the order they were started, and the user   *)
(* removes a file or resets only when no FileReader is pending, so the     *)
(* grid holds no preview of an earlier collection.                         *)

CapBatches == {[i \in 1..n |-> "a.png"] : n \in 0..(MAX_FILES + MaxOver)}

CapSelect == \E files \in CapBatches : HandleFileSelect(files)

(* dropped files: the same, and two drops holding a file that is no image *)
CapDropBatches == CapBatches \cup {<<"b.txt">>, <<"b.txt", "a.png">>}

CapDrop == \E files \in CapDropBatches : HandleDrop(files)

CapRemove ==
    \E i \in 1..Len(previewGrid) :
        /\ readers = <<>>
        /\ RemoveClick(i)

CapOnload == ReaderOnload(1)

CapReset ==
    /\ readers = <<>>
    /\ NewGenerationClick

NextCap ==
    \/ CapSelect
    \/ CapDrop
    \/ CapRemove
    \/ CapOnload
    \/ CapReset

SpecCap == Init /\ [][NextCap]_vars

-----------------------------------------------------------------------------
(* SpecGrid: the collection and the preview grid, with two files that can  *)
(* be told apart and FileReaders that complete in any order.               *)

GridSelect ==
    \E files \in SeqsUpTo(GridFiles, MaxGridBatch) :
        /\ Len(uploadedFiles) + Len(files) <= MaxGridHeld
        /\ Len(readers) + Len(files) <= MaxGridPending
        /\ HandleFileSelect(files)

GridRemove ==
    \E i \in 1..Len(previewGrid) :
        /\ Len(readers) + Len(Splice1(uploadedFiles, previewGrid[i].index))
               <= MaxGridPending
        /\ RemoveClick(i)

GridOnload == \E i \in 1..Len(readers) : ReaderOnload(i)

NextGrid ==
    \/ GridSelect
    \/ GridRemove
    \/ GridOnload
    \/ NewGenerationClick

SpecGrid == Init /\ [][NextGrid]_vars

-----------------------------------------------------------------------------
(* SpecAppend: adds to a collection near its capacity, of files that can   *)
(* be told apart.  Two mixed selections and selections of                  *)
(* MAX_FILES - MaxFill .. MAX_FILES copies of one file; FileReaders        *)
(* complete in the order they were started; no file is removed.            *)

AppendBatches ==
    {<<"c.png", "a.png">>, <<"a.png", "c.png", "c.png">>}
    \cup {[i \in 1..n |-> "a.png"] : n \in (MAX_FILES - MaxFill)..MAX_FILES}

AppendSelect == \E files \in AppendBatches : HandleFileSelect(files)

(* dropped files: the same, and a drop holding a file that is no image *)
AppendDropBatches == AppendBatches \cup {<<"c.png", "b.txt", "a.png">>}

AppendDrop == \E files \in AppendDropBatches : HandleDrop(files)

NextAppend ==
    \/ AppendSelect
    \/ AppendDrop
    \/ CapOnload
    \/ CapReset

SpecAppend == Init /\ [][NextAppend]_vars

-----------------------------------------------------------------------------
(* SpecFifo: SpecGrid with FileReaders that complete in the order they     *)
(* were started.                                                           *)

NextFifo ==
    \/ GridSelect
    \/ GridRemove
    \/ CapOnload
    \/ NewGenerationClick

SpecFifo == Init /\ [][NextFifo]_vars

-----------------------------------------------------------------------------
(* SpecReq: what a generation request carries.  Files that can be told     *)
(* apart, every aspect ratio, prompts with blanks around them; the         *)
(* FileReaders complete in the order they were started, a file is removed  *)
(* when none is pending, and a request is rejected or succeeds.            *)

ReqSelect ==
    \E files \in SeqsUpTo(GridFiles, MaxReqHeld) :
        /\ Len(uploadedFiles) + Len(files) <= MaxReqHeld
        /\ HandleFileSelect(files)

ReqAspectRatio == \E value \in AspectRatios : AspectRatioChange(value)

ReqOutcomes == {outcome \in Outcomes : outcome.kind = "rejected" \/ isSuccess(outcome)}

ReqSettle == \E outcome \in ReqOutcomes : FetchSettled(1, outcome)

NextReq ==
    \/ ReqSelect
    \/ CapRemove
    \/ CapOnload
    \/ TypePrompt
    \/ ReqAspectRatio
    \/ GenerateClick
    \/ ReqSettle

SpecReq == Init /\ [][NextReq]_vars

-----------------------------------------------------------------------------
(* SpecNotice: the notices of the page.  Any browser; the health check     *)
(* settles at any time; a prompt is typed, a generation is started and is  *)
(* rejected or succeeds; the result is shared; the timers of the share     *)
(* notices fire at any time after they were set.                           *)

InitNotice == \E nav \in Navigators : InitIn(nav)

NoticeHealth == \E outcome \in HealthOutcomes : HealthSettled(outcome)

NoticeShare ==
    /\ shares < MaxShares
    /\ hideTimers < MaxTimers
    /\ ShareClick

NoticeShareSettles ==
    \E outcome \in ShareOutcomes :
        /\ hideTimers < MaxTimers
        /\ ShareSettled(outcome)

NextNotice ==
    \/ NoticeHealth
    \/ TypePrompt
    \/ GenerateClick
    \/ ReqSettle
    \/ NoticeShare
    \/ NoticeShareSettles
    \/ HideTimerFires

SpecNotice == InitNotice /\ [][NextNotice]_vars

-----------------------------------------------------------------------------
(* Shorthands of the properties.                                           *)

hasPrompt == Len(Trim(promptValue)) > 0

(* a request has been issued and has not settled *)
Outstanding == requests # <<>>

(* this step is the settling of a request with outcome *)
SettledWith(outcome) ==
    /\ lastOp'.op = "settled"
    /\ \E i \in 1..Len(requests) : FetchSettled(i, outcome)

(* this step is the settling of some request: only FetchSettled removes a  *)
(* request and leaves lastOp "settled"                                     *)
Settling ==
    /\ lastOp'.op = "settled"
    /\ Len(requests') = Len(requests) - 1

(* this step is a selection, or a drop, of files *)
Selected(files) ==
    /\ lastOp' = [op |-> "fileSelect", n |-> Len(files)]
    /\ HandleFileSelect(files)

Dropped(files) ==
    /\ lastOp' = [op |-> "drop", n |-> Len(files)]
    /\ HandleDrop(files)

-----------------------------------------------------------------------------
(* C1: at most one generation request is outstanding at any time.          *)
C1_AtMostOneRequest == Len(requests) <= 1

(* C2: the generate button is enabled iff the trimmed prompt is non-empty  *)
(* and no request is outstanding, whatever is attached.                    *)
C2_ButtonEnabledIff == (~generateBtnDisabled) <=> (hasPrompt /\ ~Outstanding)

(* C3: after every step the number of attachments is at most MAX_FILES,    *)
(* and an add keeps as many of its files as fit and drops the rest.        *)
C3_CountNeverExceedsMax ==
    [][/\ Len(uploadedFiles') <= MAX_FILES
       /\ \A files \in CapDropBatches :
            /\ Selected(files) =>
                   Len(uploadedFiles') = Min(MAX_FILES, Len(uploadedFiles) + Len(files))
            /\ Dropped(files) =>
                   Len(uploadedFiles') =
                       Min(MAX_FILES, Len(uploadedFiles) + Len(SelectSeq(files, IsImage)))]_vars

C3_Witness ==
    /\ lastOp.op = "fileSelect"
    /\ lastOp.n > MAX_FILES
    /\ Len(uploadedFiles) = MAX_FILES

(* C4: generate called while a generation is in flight issues no request   *)
(* and changes nothing, whatever the prompt is.                            *)
C4_GenerateInFlightNoOp ==
    [][(isGenerating /\ GenerateClick) =>
          UNCHANGED <<requests, isGenerating, errorMessageHidden, errorText,
                      resultSectionHidden, resultImageSrc, btnTextHidden,
                      btnLoaderHidden, generateBtnDisabled>>]_vars

(* C5: a response with a success status, success true and a non-empty      *)
(* image stores the image and shows the result with no error shown; any    *)
(* other outcome leaves the result hidden and shows a non-empty error.     *)
C5_ResponseOutcome ==
    [][\A outcome \in Outcomes :
          SettledWith(outcome) =>
              IF isSuccess(outcome)
              THEN /\ resultImageSrc' = outcome.image
                   /\ ~resultSectionHidden'
                   /\ errorMessageHidden'
              ELSE /\ resultSectionHidden'
                   /\ ~errorMessageHidden'
                   /\ errorText' # ""]_vars

(* C6: the settling of a request, whatever its outcome, clears the         *)
(* in-flight flag and the loading indicator, and after every step that     *)
(* leaves no generation flagged the button is enabled iff the trimmed      *)
(* prompt is non-empty.                                                    *)
C6_InFlightAlwaysCleared ==
    [][/\ Settling => (~isGenerating' /\ btnLoaderHidden' /\ ~btnTextHidden')
       /\ ~isGenerating' => (generateBtnDisabled' <=> ~hasPrompt')]_vars

C6_Witness ==
    /\ lastOp.op = "settled"
    /\ ~errorMessageHidden
    /\ errorText = MsgFetchRejected
    /\ ~isGenerating
    /\ ~generateBtnDisabled

(* C7: an add of more files than fit keeps exactly the first               *)
(* remaining-capacity files and leaves the capacity notice shown.          *)
C7_CapacityNoticeShown ==
    [][\A files \in CapBatches :
          (Selected(files) /\ Len(files) > MAX_FILES - Len(uploadedFiles)) =>
              /\ uploadedFiles' =
                     uploadedFiles \o SubSeq(files, 1, MAX_FILES - Len(uploadedFiles))
              /\ Len(uploadedFiles') = MAX_FILES
              /\ ~errorMessageHidden'
              /\ errorText' = MsgMaxFiles(MAX_FILES - Len(uploadedFiles))]_vars

(* C8: generate with a prompt that is empty after trimming issues no       *)
(* request, shows the validation error and does not enter the in-flight    *)
(* state: flag, loading indicator and result visibility stay as they were. *)
C8_EmptyPromptRejected ==
    [][(~hasPrompt /\ GenerateClick) =>
          /\ requests' = requests
          /\ ~errorMessageHidden'
          /\ errorText' = MsgEmptyPrompt
          /\ UNCHANGED <<isGenerating, btnLoaderHidden, btnTextHidden,
                         resultSectionHidden, resultImageSrc>>]_vars

C8_Witness ==
    /\ lastOp.op = "generate"
    /\ ~hasPrompt
    /\ promptValue # <<>>
    /\ ~errorMessageHidden
    /\ errorText = MsgEmptyPrompt
    /\ ~resultSectionHidden
    /\ ~Outstanding

(* C9: after a response with a non-success status the error shown is the   *)
(* body's detail when it is a non-empty string and a fallback message of   *)
(* the script otherwise, and the button is enabled if the trimmed prompt   *)
(* is non-empty.                                                           *)
C9_ErrorDetailOrFallback ==
    [][\A outcome \in Outcomes :
          (SettledWith(outcome) /\ outcome.kind # "rejected" /\ ~outcome.ok) =>
              /\ ~errorMessageHidden'
              /\ IF outcome.kind = "object" /\ Truthy(outcome.detail)
                 THEN errorText' = outcome.detail
                 ELSE errorText' \in {MsgFailedToGenerate, MsgGenericError}
              /\ hasPrompt' => ~generateBtnDisabled']_vars

(* C10: right after reset nothing is attached, the grid is empty, the      *)
(* prompt is empty, result and error are hidden and the button is          *)
(* disabled.                                                               *)
C10_AfterReset ==
    lastOp.op = "newGeneration" =>
        /\ Len(uploadedFiles) = 0
        /\ previewGrid = <<>>
        /\ promptValue = <<>>
        /\ resultSectionHidden
        /\ errorMessageHidden
        /\ errorText = ""
        /\ generateBtnDisabled

C10_Witness ==
    /\ lastOp.op = "newGeneration"
    /\ Outstanding
    /\ readers # <<>>
    /\ ~btnLoaderHidden

(* C11: a remove with an index of the collection deletes exactly the       *)
(* element at that index and keeps the others in their order at positions  *)
(* 0..count-2; a remove with an index beyond the collection changes        *)
(* nothing of it.                                                          *)
C11_RemoveDeletesExactlyOne ==
    [][lastOp'.op = "removeFile" =>
          LET i == lastOp'.n
              count == Len(uploadedFiles)
          IN  IF i \in 0..(count - 1)
              THEN /\ Len(uploadedFiles') = count - 1
                   /\ \A j \in 0..(count - 2) :
                         uploadedFiles'[j + 1] =
                             IF j < i THEN uploadedFiles[j + 1] ELSE uploadedFiles[j + 2]
              ELSE uploadedFiles' = uploadedFiles]_vars

C11_Witness ==
    /\ lastOp.op = "removeFile"
    /\ uploadedFiles # <<>>
    /\ lastOp.n > Len(uploadedFiles)

(* C12: an add appends the first min(len(files), MAX_FILES - count) of its *)
(* files in their order and leaves the attachments present where they are. *)
C12_AddAppendsFirstThatFit ==
    [][\A files \in AppendDropBatches :
          LET added(given) ==
                  LET count == Len(uploadedFiles)
                      k == Min(Len(given), MAX_FILES - count)
                  IN  /\ Len(uploadedFiles') = count + k
                      /\ \A j \in 1..count : uploadedFiles'[j] = uploadedFiles[j]
                      /\ \A j \in 1..k : uploadedFiles'[count + j] = given[j]
          IN  /\ Selected(files) => added(files)
              /\ Dropped(files) => added(SelectSeq(files, IsImage))]_vars

C12_Witness ==
    /\ lastOp = [op |-> "fileSelect", n |-> 3]
    /\ Len(uploadedFiles) = MAX_FILES
    /\ uploadedFiles[MAX_FILES - 1] = "a.png"
    /\ uploadedFiles[MAX_FILES] = "c.png"

(* C13: the preview items of the grid are in the order of their            *)
(* attachments in the collection, whatever the order in which the          *)
(* FileReaders complete.                                                   *)
C13_PreviewsInCollectionOrder ==
    \A j \in 1..Len(previewGrid) : \A k \in 1..Len(previewGrid) :
        j < k => previewGrid[j].index < previewGrid[k].index

(* C14: when no FileReader is pending the grid holds exactly one preview   *)
(* item per attachment, with the indices 0..count-1, each showing the      *)
(* attachment at its index.                                                *)
C14_GridIsCollection ==
    readers = <<>> =>
        /\ Len(previewGrid) = Len(uploadedFiles)
        /\ {previewGrid[j].index : j \in 1..Len(previewGrid)}
               = 0..(Len(uploadedFiles) - 1)
        /\ \A j \in 1..Len(previewGrid) :
               previewGrid[j].file = uploadedFiles[previewGrid[j].index + 1]

(* C19: the remove button of a preview item removes no attachment other    *)
(* than the one the item shows.                                            *)
C19_RemoveButtonRemovesShown ==
    [][\A i \in 1..Len(previewGrid) :
          (lastOp'.op = "removeFile" /\ RemoveClick(i)) =>
              \/ uploadedFiles' = uploadedFiles
              \/ /\ previewGrid[i].index < Len(uploadedFiles)
                 /\ uploadedFiles[previewGrid[i].index + 1] = previewGrid[i].file
                 /\ uploadedFiles' = Without(uploadedFiles, previewGrid[i].index + 1)]_vars

(* C15: a generate that is accepted (trimmed prompt non-empty, nothing in  *)
(* flight) leaves, before its request settles: the in-flight flag set, one *)
(* more request issued, no error shown, the result hidden, the button      *)
(* disabled and the loading indicator shown in place of the button text.   *)
C15_AcceptedGenerateState ==
    [][(lastOp'.op = "generate" /\ hasPrompt /\ ~isGenerating /\ GenerateClick) =>
          /\ isGenerating'
          /\ Len(requests') = Len(requests) + 1
          /\ errorMessageHidden'
          /\ errorText' = ""
          /\ resultSectionHidden'
          /\ generateBtnDisabled'
          /\ btnTextHidden'
          /\ ~btnLoaderHidden']_vars

C15_Witness ==
    /\ lastOp.op = "generate"
    /\ isGenerating
    /\ Len(requests) = 1
    /\ resultImageSrc = ImageData
    /\ resultSectionHidden
    /\ errorMessageHidden
    /\ ~btnLoaderHidden

(* C16: an accepted generate issues exactly one request, carrying the      *)
(* trimmed prompt, the selected aspect ratio and the attachments held, in  *)
(* their order; a generate that is not accepted issues none; and no other  *)
(* handler adds, drops or changes a request.                               *)
C16_RequestCarriesPageState ==
    [][/\ (lastOp'.op = "generate" /\ GenerateClick) =>
              IF hasPrompt /\ ~isGenerating
              THEN requests' = Append(requests,
                                      [prompt |-> Trim(promptValue),
                                       aspect_ratio |-> aspectRatio,
                                       images |-> uploadedFiles])
              ELSE requests' = requests
       /\ lastOp'.op \notin {"generate", "settled"} => requests' = requests]_vars

C16_Witness ==
    /\ lastOp.op \in {"removeFile", "promptInput"}
    /\ Len(requests) = 1
    /\ requests[1] = [prompt |-> <<"a">>,
                      aspect_ratio |-> "16:9",
                      images |-> <<"c.png", "a.png">>]
    /\ uploadedFiles = <<"a.png">>
    /\ promptValue = <<>>
    /\ aspectRatio = "9:16"

(* C17: when the health check settles no generation request is issued and, *)
(* apart from the notice, the page is left as it was; with api_configured  *)
(* false the configuration notice is shown, and with a check that failed   *)
(* (fetch rejected, body not JSON) the connection notice.                  *)
C17_HealthCheckNotice ==
    [][\A outcome \in HealthOutcomes :
          (lastOp'.op = "health" /\ HealthSettled(outcome)) =>
              /\ UNCHANGED <<requests, isGenerating, uploadedFiles, promptValue,
                             charCount, aspectRatio, generateBtnDisabled,
                             btnTextHidden, btnLoaderHidden, resultSectionHidden,
                             resultImageSrc, previewGrid, readers, shares,
                             hideTimers>>
              /\ (outcome.kind = "object" /\ ~outcome.api_configured) =>
                     (~errorMessageHidden' /\ errorText' = MsgApiKeyNotConfigured)
              /\ outcome.kind \in {"rejected", "not_json"} =>
                     (~errorMessageHidden' /\ errorText' = MsgUnableToConnect)]_vars

C17_Witness ==
    /\ lastOp.op = "health"
    /\ ~errorMessageHidden
    /\ errorText = MsgUnableToConnect
    /\ requests = <<>>
    /\ hasPrompt
    /\ ~generateBtnDisabled

(* C18: a share of a displayed result in a browser without the Web Share   *)
(* API, or whose Web Share API refuses the file, shows a notice that tells *)
(* the user to download and sets the timer that clears it; a share the     *)
(* user cancels shows nothing.                                             *)
C18_ShareFallbackNotice ==
    [][/\ (/\ lastOp'.op = "share"
           /\ ShareClick
           /\ Truthy(resultImageSrc)
           /\ ~resultSectionHidden
           /\ ~(navigator.share /\ navigator.canShare)) =>
              /\ ~errorMessageHidden'
              /\ errorText' = MsgShareNotSupported
              /\ hideTimers' = hideTimers + 1
       /\ (/\ lastOp'.op = "shareSettled"
           /\ ShareSettled([kind |-> "cannot_share_file"])) =>
              /\ ~errorMessageHidden'
              /\ errorText' = MsgShareNotSupported
              /\ hideTimers' = hideTimers + 1
       /\ (/\ lastOp'.op = "shareSettled"
           /\ ShareSettled([kind |-> "share_rejected", name |-> "AbortError"])) =>
              UNCHANGED <<errorMessageHidden, errorText, hideTimers>>]_vars

(* C20: the response that arrives right after a reset, of a request that   *)
(* was in flight when reset was pressed, makes neither a result nor an     *)
(* error visible.                                                          *)
C20_LateResponseSilent ==
    [][(lastOp.op = "newGeneration" /\ Settling) =>
          (resultSectionHidden' /\ errorMessageHidden')]_vars

(* C21: the loading indicator is shown, and the button text hidden, in     *)
(* exactly the states in which a generation is in flight.                  *)
C21_LoaderIffInFlight ==
    /\ (~btnLoaderHidden) <=> isGenerating
    /\ btnTextHidden <=> isGenerating

(* C22: while a request is outstanding the result section is hidden.       *)
C22_ResultHiddenInFlight == Outstanding => resultSectionHidden

(* C23: the timer of a share notice hides no error other than a share      *)
(* notice: an error of another operation that is shown when the timer      *)
(* fires stays shown.                                                      *)
C23_ShareTimerHidesOnlyShareNotice ==
    [][(/\ lastOp'.op = "hideTimer"
        /\ HideTimerFires
        /\ ~errorMessageHidden
        /\ errorText \notin {MsgShareNotSupported, MsgUnableToShare}) =>
           (~errorMessageHidden' /\ errorText' = errorText)]_vars

====
